---- MODULE Spec2Model ----
(***************************************************************************)
(* Model of src/src/javascript/sketch.js ("Playful Determinism").          *)
(*                                                                         *)
(* The file holds two definitions of class TiledSwirl: the first (lines    *)
(* 35-164) fills the whole viewport and rounds rows/cols up, the second    *)
(* (lines 190-319) keeps a square canvas and rounds rows/cols down.  The   *)
(* variable `variant` says which of the two is running.                    *)
(*                                                                         *)
(* JavaScript numbers are modelled as exact rationals [n, d] extended with *)
(* +Infinity (1/0), -Infinity (-1/0) and NaN (0/0), so that a division by  *)
(* zero gives what the program gives.  Math.sqrt, Math.atan2 and Math.sin  *)
(* are computed in fixed point (see MathSqrt, MathAtan2, MathSin).         *)
(***************************************************************************)
EXTENDS Integers, Sequences, FiniteSets

(***************************************************************************)
(* Bounds of the model.                                                    *)
(***************************************************************************)
\* window.innerWidth is at most MaxDim CSS pixels
MaxDim == 3
\* the frame callback runs at most MaxFrames times
MaxFrames == 3

(***************************************************************************)
(* JavaScript numbers.                                                     *)
(***************************************************************************)
RECURSIVE Gcd(_, _)
Gcd(a, b) == IF b = 0 THEN a ELSE Gcd(b, a % b)

Abs(x) == IF x < 0 THEN -x ELSE x

Sign(x) == IF x > 0 THEN 1 ELSE IF x < 0 THEN -1 ELSE 0

\* the number n/d in lowest terms; d = 0 gives Infinity, -Infinity or NaN
R(n, d) ==
    IF d = 0 THEN [n |-> Sign(n), d |-> 0]
    ELSE LET g == Gcd(Abs(n), Abs(d))
         IN  [n |-> Sign(d) * (n \div g), d |-> Abs(d) \div g]

Num(k) == [n |-> k, d |-> 1]

NaN == [n |-> 0, d |-> 0]

Infinity == [n |-> 1, d |-> 0]

IsNaN(a) == a.n = 0 /\ a.d = 0

IsFinite(a) == a.d # 0

\* a * b
Mul(a, b) == R(a.n * b.n, a.d * b.d)

\* a / b: x/0 is +-Infinity, 0/0 is NaN, x/Infinity is 0
Div(a, b) == Mul(a, R(b.d, b.n))

\* a + b
Add(a, b) ==
    IF a.d = 0 /\ b.d = 0 THEN (IF a = b THEN a ELSE NaN)
    ELSE R(a.n * b.d + b.n * a.d, a.d * b.d)

\* a - b
Sub(a, b) == Add(a, [n |-> -b.n, d |-> b.d])

\* a < b; every comparison with NaN is false
Less(a, b) ==
    /\ ~IsNaN(a)
    /\ ~IsNaN(b)
    /\ IF a.d = 0 /\ b.d = 0 THEN a.n < b.n ELSE a.n * b.d < b.n * a.d

\* a <= b
Leq(a, b) == Less(a, b) \/ (~IsNaN(a) /\ a = b)

\* Math.min and Math.max: NaN when an argument is NaN
MathMin(a, b) == IF IsNaN(a) \/ IsNaN(b) THEN NaN ELSE IF Less(b, a) THEN b ELSE a

MathMax(a, b) == IF IsNaN(a) \/ IsNaN(b) THEN NaN ELSE IF Less(a, b) THEN b ELSE a

\* floor of an integer quotient n/d with d > 0
FloorDiv(n, d) == IF n >= 0 THEN n \div d ELSE -((-n + d - 1) \div d)

\* Math.floor and Math.ceil: Infinity and NaN are returned unchanged
MathFloor(a) == IF a.d = 0 THEN a ELSE Num(FloorDiv(a.n, a.d))

MathCeil(a) == IF a.d = 0 THEN a ELSE Num(-FloorDiv(-a.n, a.d))

\* number of iterations of `for (k = 0; k < bound; k++)`
LoopCount(bound) == IF IsFinite(bound) /\ bound.n > 0 THEN MathCeil(bound).n ELSE 0


\* Math.sqrt in fixed point: the square root of a, rounded down to a tenth
MathSqrt(a) ==
    IF IsNaN(a) \/ a.n < 0 THEN NaN
    ELSE IF a.d = 0 THEN a
    ELSE LET m == (a.n * 100) \div a.d
         IN  R(CHOOSE k \in 0..m : k * k <= m /\ m < (k + 1) * (k + 1), 10)

\* pi/4 as the fraction 11/14 (pi = 22/7)
QuarterPi == R(11, 14)

\* Math.atan2 in fixed point: the multiple of pi/4 nearest to the angle of
\* (x, y), in (-pi, pi]; tan(pi/8) = 29/70 and tan(3 pi/8) = 169/70
MathAtan2(y, x) ==
    LET ax == Abs(x.n) * y.d
        ay == Abs(y.n) * x.d
        k  == IF ay = 0 /\ ax = 0 THEN 0
              ELSE IF 70 * ay <= 29 * ax THEN 0
              ELSE IF 70 * ay >= 169 * ax THEN 2
              ELSE 1
        q  == IF x.n >= 0 THEN k ELSE 4 - k
        s  == IF y.n < 0 THEN -q ELSE q
    IN  IF IsFinite(x) /\ IsFinite(y) THEN Mul(Num(s), QuarterPi) ELSE NaN

\* sin at the multiples of pi/4, in hundredths
SinTable == <<0, 71, 100, 71, 0, -71, -100, -71>>

\* Math.sin in fixed point: the sine of the multiple of pi/4 at or below a
MathSin(a) ==
    IF ~IsFinite(a) THEN NaN
    ELSE R(SinTable[(MathFloor(Div(a, QuarterPi)).n % 8) + 1], 100)

(***************************************************************************)
(* The program: class TiledSwirl and class Utils.                          *)
(***************************************************************************)
VARIABLES
    variant,            \* "first": lines 35-164; "second": lines 190-319
    density, edge, speed, palette,              \* configuration fields
    rows, cols, size, time, distanceMax, isDark, colors,
    canvas,             \* [width, height] of the canvas element
    ctx,                \* TRUE when this.ctx is a 2D context, FALSE when null
    innerWidth, innerHeight, devicePixelRatio,  \* window
    themeMatches,       \* themeQuery.matches
    contextAvailable,   \* whether canvas.getContext("2d") gives a context
    pc,                 \* "loaded" before new TiledSwirl(canvas), then "running"
    rafPending,         \* callbacks given to requestAnimationFrame, not yet run
    commands,           \* fillRect calls of the latest frame, by cell
    lastFrame,          \* what the latest frame read, and whether draw threw
    frames,             \* number of frames rendered (animate past its guard)
    initColors          \* this.colors as colorsInit left it

vars ==
    <<variant, density, edge, speed, palette, rows, cols, size, time,
      distanceMax, isDark, colors, canvas, ctx, innerWidth, innerHeight,
      devicePixelRatio, themeMatches, contextAvailable, pc, rafPending,
      commands, lastFrame, frames, initColors>>

tightness == 3

ripple == 5

\* the value of a missing array element or property
undefined == "undefined"

\* line 43: the palette entry the model keeps beside ""
Red == "hsl(343, 90%, 50%)"

\* the sessions the model runs: the first definition of the class with the
\* fields of lines 36-46 (density and palette scaled down), on a page whose
\* canvas gives a 2D context at pixel ratio 1; each of these changed in turn;
\* and the second definition of the class at every density
BaseConfig ==
    [variant |-> "first", density |-> Num(1), edge |-> R(1, 10),
     speed |-> R(3, 100), palette |-> <<"", Red>>, contextAvailable |-> TRUE,
     devicePixelRatio |-> 1]

Densities == {Num(2), R(3, 2), Num(0), Num(-1)}

Configs ==
    {BaseConfig}
    \cup {[BaseConfig EXCEPT !.density = d, !.palette = <<Red>>] : d \in Densities}
    \cup {[BaseConfig EXCEPT !.edge = e] : e \in {R(2, 5), Num(0), R(1, 2), R(3, 5)}}
    \cup {[BaseConfig EXCEPT !.speed = Num(1)]}
    \cup {[BaseConfig EXCEPT !.palette = <<>>]}
    \cup {[BaseConfig EXCEPT !.contextAvailable = FALSE]}
    \cup {[BaseConfig EXCEPT !.devicePixelRatio = 2]}
    \cup {[BaseConfig EXCEPT !.devicePixelRatio = 2, !.density = R(3, 2),
                             !.palette = <<Red>>]}
    \cup {[BaseConfig EXCEPT !.variant = "second"]}
    \cup {[BaseConfig EXCEPT !.variant = "second", !.density = d, !.palette = <<Red>>] :
            d \in Densities}

\* window.innerWidth ranges over Widths and window.innerHeight over Heights
Widths == 2..MaxDim

Heights == {2, 3}

EmptyColors == [cols |-> 0, rows |-> 0, at |-> << >>]

NoFrame ==
    [cols |-> Num(0), rows |-> Num(0), size |-> Num(0), isDark |-> FALSE,
     colorsCols |-> 0, colorsRows |-> 0, threw |-> FALSE]

\* lines 36-56: the field initialisers, and the page before DOMContentLoaded
Init ==
    /\ \E c \in Configs :
          /\ variant = c.variant
          /\ density = c.density
          /\ edge = c.edge
          /\ speed = c.speed
          /\ palette = c.palette
          /\ contextAvailable = c.contextAvailable
          /\ devicePixelRatio = c.devicePixelRatio
    /\ rows = Num(0)
    /\ cols = Num(0)
    /\ size = Num(0)
    /\ time = Num(0)
    /\ distanceMax = Num(0)
    /\ isDark = FALSE
    /\ colors = EmptyColors
    /\ canvas = [width |-> Num(300), height |-> Num(150)]   \* a canvas not yet sized
    /\ ctx = FALSE
    /\ innerWidth \in Widths
    /\ innerHeight \in Heights
    /\ themeMatches \in BOOLEAN
    /\ pc = "loaded"
    /\ rafPending = 0
    /\ commands = << >>
    /\ lastFrame = NoFrame
    /\ frames = 0
    /\ initColors = EmptyColors

\* lines 88-109 and 243-264: the fields canvasResize assigns
canvasResize(w, h, dpr) ==
    LET ratio  == Num(dpr)
        width  == Mul(Num(w), ratio)
        height == IF variant = "first" THEN Mul(Num(h), ratio)
                  ELSE Mul(Num(w), ratio)
        sz     == Div(Div(MathMin(width, height), density), ratio)
        r      == Div(Div(height, sz), ratio)
        c      == Div(Div(width, sz), ratio)
        halfWidth  == Div(Div(width, Num(2)), ratio)
        halfHeight == Div(Div(height, Num(2)), ratio)
    IN  [canvas |-> [width |-> width, height |-> height],
         size |-> sz,
         rows |-> IF variant = "first" THEN MathCeil(r) ELSE MathFloor(r),
         cols |-> IF variant = "first" THEN MathCeil(c) ELSE MathFloor(c),
         distanceMax |-> MathSqrt(Add(Mul(halfWidth, halfWidth), Mul(halfHeight, halfHeight)))]

\* lines 74-76: get blankColor
blankColor(dark) == IF dark THEN "hsl(0, 0%, 100%)" ELSE "hsl(0, 0%, 0%)"

\* lines 122-124: palette[Math.floor(Utils.random() * palette.length)], for
\* every value of Utils.random() in [0, 1)
PaletteDraws ==
    IF Len(palette) = 0 THEN {undefined}
    ELSE {palette[k] : k \in 1..Len(palette)}

Cells(nc, nr) == (0..(nc - 1)) \X (0..(nr - 1))

\* lines 115-127: the tables colorsInit can build for the current cols, rows
colorsInit(c, r) ==
    {[cols |-> LoopCount(c), rows |-> LoopCount(r), at |-> f] :
        f \in [Cells(LoopCount(c), LoopCount(r)) -> PaletteDraws]}

\* line 179: x * x * (3 - 2 * x)
Hermite(x) == Mul(Mul(x, x), Sub(Num(3), Mul(Num(2), x)))

\* smoothStep without the clamp of line 177
smoothStepUnclamped(x, edge1, edge2) ==
    Hermite(Div(Sub(x, edge1), Sub(edge2, edge1)))

\* lines 176-180: Utils.smoothStep
smoothStep(x, edge1, edge2) ==
    Hermite(MathMax(Num(0), MathMin(Num(1), Div(Sub(x, edge1), Sub(edge2, edge1)))))

\* the fields of the object that draw reads
This ==
    [rows |-> rows, cols |-> cols, size |-> size, time |-> time,
     distanceMax |-> distanceMax, isDark |-> isDark, colors |-> colors,
     canvas |-> canvas, ctx |-> ctx]

\* lines 133-134: centerX and centerY, from canvas.width and canvas.height
Center(extent, ratio) == Div(Div(extent, ratio), Num(2))

\* lines 145-146: angleX and angleY, x + this.size / 2 - centerX
Offset(x, sz, center) == Sub(Add(x, Div(sz, Num(2))), center)

\* lines 141-144: distNormalized
DistNormalized(angleX, angleY, dmax) ==
    Div(MathSqrt(Add(Mul(angleX, angleX), Mul(angleY, angleY))), dmax)

\* line 148: rippleFactor
RippleFactor(distNormalized) ==
    Mul(Num(tightness), Add(Num(1), Mul(distNormalized, Num(ripple))))

\* line 149: wave
Wave(distNormalized, angle, t) ==
    MathSin(Sub(Add(Mul(distNormalized, RippleFactor(distNormalized)), angle), t))

\* lines 150-153: waveEdged
WaveEdged(wave) ==
    smoothStep(Div(Add(wave, Num(1)), Num(2)), Sub(R(1, 2), edge), Add(R(1, 2), edge))

\* line 154: tileSize
TileSize(sz, waveEdged) == Add(Mul(sz, R(1, 5)), Mul(Mul(sz, R(4, 5)), waveEdged))

\* line 159: this.colors[i][j] || this.blankColor
FillStyle(table, dark, i, j) ==
    IF j < table.rows /\ table.at[<<i, j>>] \notin {"", undefined}
    THEN table.at[<<i, j>>]
    ELSE blankColor(dark)

\* lines 156-160: the fillRect call
FillRect(fillStyle, x, y, sz, tileSize) ==
    [fillStyle |-> fillStyle,
     tileX |-> Add(x, Div(Sub(sz, tileSize), Num(2))),
     tileY |-> Add(y, Div(Sub(sz, tileSize), Num(2))),
     tileSize |-> tileSize]

\* lines 141-154: the size of the tile whose centre is (angleX, angleY) away
\* from the centre of the canvas
TileSizeAt(this, angleX, angleY) ==
    TileSize(this.size,
             WaveEdged(Wave(DistNormalized(angleX, angleY, this.distanceMax),
                            MathAtan2(angleY, angleX), this.time)))

\* lines 138-160: the fillRect call of cell (i, j); ratio is
\* window.devicePixelRatio
Tile(this, ratio, i, j) ==
    FillRect(FillStyle(this.colors, this.isDark, i, j),
             Mul(Num(i), this.size), Mul(Num(j), this.size), this.size,
             TileSizeAt(this,
                        Offset(Mul(Num(i), this.size), this.size,
                               Center(this.canvas.width, ratio)),
                        Offset(Mul(Num(j), this.size), this.size,
                               Center(this.canvas.height, ratio))))

\* lines 129-163: the fillRect calls of draw, by cell.  Reading
\* this.colors[i][j] throws a TypeError at the first column i that
\* this.colors does not hold; the calls made before it stay on the canvas.
draw(this, ratio) ==
    LET nc == LoopCount(this.cols)
        nr == LoopCount(this.rows)
        threw == nr > 0 /\ nc > this.colors.cols
        done == IF threw THEN this.colors.cols ELSE nc
    IN  [commands |-> [c \in Cells(done, nr) |-> Tile(this, ratio, c[1], c[2])],
         threw |-> threw]

\* animate with line 84 after line 85: a draw that throws leaves time alone
animateDrawFirst(this, ratio) ==
    IF ~this.ctx
    THEN [scheduled |-> 1, rendered |-> FALSE, time |-> this.time,
          commands |-> << >>, threw |-> FALSE]
    ELSE LET now == Add(this.time, speed)
             d   == draw(this, ratio)
         IN  [scheduled |-> 1, rendered |-> TRUE,
              time |-> IF d.threw THEN this.time ELSE now,
              commands |-> d.commands, threw |-> d.threw]

\* animate with line 79 as its last line: a draw that throws ends the loop
animateScheduleLast(this, ratio) ==
    IF ~this.ctx
    THEN [scheduled |-> 0, rendered |-> FALSE, time |-> this.time,
          commands |-> << >>, threw |-> FALSE]
    ELSE LET now == Add(this.time, speed)
             d   == draw([this EXCEPT !.time = now], ratio)
         IN  [scheduled |-> IF d.threw THEN 0 ELSE 1, rendered |-> TRUE,
              time |-> now, commands |-> d.commands, threw |-> d.threw]

\* lines 78-86: animate.  It asks for the next frame first; without a context
\* it returns, else it advances time and draws.
animate(this, ratio) ==
    IF ~this.ctx
    THEN [scheduled |-> 1, rendered |-> FALSE, time |-> this.time,
          commands |-> << >>, threw |-> FALSE]
    ELSE LET now == Add(this.time, speed)
             d   == draw([this EXCEPT !.time = now], ratio)
         IN  [scheduled |-> 1, rendered |-> TRUE, time |-> now,
              commands |-> d.commands, threw |-> d.threw]

\* what a frame leaves for an observer of the canvas
FrameRecord(this, a) ==
    [cols |-> this.cols, rows |-> this.rows, size |-> this.size,
     isDark |-> this.isDark, colorsCols |-> this.colors.cols,
     colorsRows |-> this.colors.rows, threw |-> a.threw]

\* lines 27-33 and 61-72: DOMContentLoaded, new TiledSwirl(canvas)
Construct ==
    /\ pc = "loaded"
    /\ LET g == canvasResize(innerWidth, innerHeight, devicePixelRatio)
       IN  \E table \in colorsInit(g.cols, g.rows) :
              LET this == [rows |-> g.rows, cols |-> g.cols, size |-> g.size,
                           time |-> time, distanceMax |-> g.distanceMax,
                           isDark |-> themeMatches, colors |-> table,
                           canvas |-> g.canvas, ctx |-> contextAvailable]
                  a == animate(this, Num(devicePixelRatio))
              IN  /\ ctx' = contextAvailable
                  /\ canvas' = g.canvas
                  /\ size' = g.size
                  /\ rows' = g.rows
                  /\ cols' = g.cols
                  /\ distanceMax' = g.distanceMax
                  /\ isDark' = themeMatches
                  /\ colors' = table
                  /\ initColors' = table
                  /\ rafPending' = rafPending + a.scheduled
                  /\ time' = a.time
                  /\ frames' = IF a.rendered THEN frames + 1 ELSE frames
                  /\ commands' = a.commands
                  /\ lastFrame' = IF a.rendered THEN FrameRecord(this, a) ELSE lastFrame
    /\ pc' = "running"
    /\ UNCHANGED <<variant, density, edge, speed, palette, innerWidth, innerHeight,
                   devicePixelRatio, themeMatches, contextAvailable>>

\* lines 78-86: the browser runs a pending frame callback
AnimationFrame ==
    /\ pc = "running"
    /\ rafPending > 0
    /\ frames < MaxFrames
    /\ LET a == animate(This, Num(devicePixelRatio))
       IN  /\ rafPending' = (rafPending - 1) + a.scheduled
           /\ time' = a.time
           /\ frames' = IF a.rendered THEN frames + 1 ELSE frames
           /\ commands' = IF a.rendered THEN a.commands ELSE commands
           /\ lastFrame' = IF a.rendered THEN FrameRecord(This, a) ELSE lastFrame
    /\ UNCHANGED <<variant, density, edge, speed, palette, rows, cols, size,
                   distanceMax, isDark, colors, canvas, ctx, innerWidth, innerHeight,
                   devicePixelRatio, themeMatches, contextAvailable, pc, initColors>>

\* a resize listener that also runs colorsInit
WindowResizeRegenerating ==
    /\ pc = "running"
    /\ \E w \in Widths, h \in Heights :
          /\ <<w, h>> # <<innerWidth, innerHeight>>
          /\ innerWidth' = w
          /\ innerHeight' = h
          /\ LET g == canvasResize(w, h, devicePixelRatio)
             IN  /\ canvas' = g.canvas
                 /\ size' = g.size
                 /\ rows' = g.rows
                 /\ cols' = g.cols
                 /\ distanceMax' = g.distanceMax
                 /\ colors' \in colorsInit(g.cols, g.rows)
    /\ UNCHANGED <<variant, density, edge, speed, palette, time, isDark, ctx,
                   devicePixelRatio, themeMatches, contextAvailable, pc, rafPending,
                   commands, lastFrame, frames, initColors>>

\* lines 70 and 88-109: the window is resized to w x h and the listener runs
WindowResize ==
    /\ pc = "running"
    /\ \E w \in Widths, h \in Heights :
          /\ <<w, h>> # <<innerWidth, innerHeight>>
          /\ innerWidth' = w
          /\ innerHeight' = h
          /\ LET g == canvasResize(w, h, devicePixelRatio)
             IN  /\ canvas' = g.canvas
                 /\ size' = g.size
                 /\ rows' = g.rows
                 /\ cols' = g.cols
                 /\ distanceMax' = g.distanceMax
    /\ UNCHANGED <<variant, density, edge, speed, palette, time, isDark, colors, ctx,
                   devicePixelRatio, themeMatches, contextAvailable, pc, rafPending,
                   commands, lastFrame, frames, initColors>>

\* lines 71 and 111-113: the colour scheme changes and the listener runs
ThemeChange ==
    /\ pc = "running"
    /\ themeMatches' = ~themeMatches
    /\ isDark' = themeMatches'
    /\ UNCHANGED <<variant, density, edge, speed, palette, rows, cols, size, time,
                   distanceMax, colors, canvas, ctx, innerWidth, innerHeight,
                   devicePixelRatio, contextAvailable, pc, rafPending, commands,
                   lastFrame, frames, initColors>>

Next == Construct \/ AnimationFrame \/ WindowResize \/ ThemeChange

Spec == Init /\ [][Next]_vars

\* line 79: a step of AnimationFrame that renders, as the browser sees it: a
\* callback is pending and the object has a context
RenderedFrame ==
    /\ pc = "running"
    /\ rafPending > 0
    /\ frames < MaxFrames
    /\ ctx
    /\ frames' = frames + 1

\* the browser runs every frame callback it was given.  Only AnimationFrame
\* changes frames once the object runs, so this is weak fairness of
\* AnimationFrame, with an enabling condition that needs no drawing.
FairSpec == Spec /\ WF_frames(RenderedFrame)

(***************************************************************************)
(* Properties.                                                             *)
(***************************************************************************)
Running == pc = "running"

\* the cells of the grid the latest frame looped over
FrameCells == Cells(LoopCount(lastFrame.cols), LoopCount(lastFrame.rows))

\* the cells of the current grid
GridCells == Cells(LoopCount(cols), LoopCount(rows))

EdgeValid == Less(Num(0), edge) /\ Less(edge, R(1, 2))

\* a step in which the window is resized
ViewportChanges == innerWidth' # innerWidth \/ innerHeight' # innerHeight

\* a configuration that the data model allows
ConfigValid == Less(Num(0), density) /\ EdgeValid

\* C1: whenever a frame's draw loop runs, after any resizes, every cell of
\* [0, cols) x [0, rows) has a ColorTable entry, and the loop reads no missing
\* column or entry.
C1_EveryCellHasColor ==
    (ConfigValid /\ frames > 0) =>
        /\ ~lastFrame.threw
        /\ \A c \in FrameCells :
              c[1] < lastFrame.colorsCols /\ c[2] < lastFrame.colorsRows

\* C2: a resize never changes the colour of a cell that had a ColorTable
\* entry and is still in range: every cell in range at initialization and in
\* range now has the colour colorsInit gave it.
C2_ResizeKeepsColors ==
    Running =>
        \A c \in DOMAIN initColors.at :
            c \in GridCells => c \in DOMAIN colors.at /\ colors.at[c] = initColors.at[c]

\* C2 witness: the grid was built with several columns, a frame was drawn
\* after a resize had taken columns away, and a later resize has brought the
\* grid back to its initial extent
C2_Witness ==
    /\ Running
    /\ initColors.cols > 1
    /\ frames > 1
    /\ LoopCount(lastFrame.cols) < initColors.cols
    /\ GridCells = DOMAIN initColors.at

\* C3: with edge in (0, 0.5), every tile drawn has
\* 0.2 * size <= tileSize <= size.
C3_TileSizeInRange ==
    EdgeValid =>
        \A c \in DOMAIN commands :
            /\ Leq(Mul(R(1, 5), lastFrame.size), commands[c].tileSize)
            /\ Leq(commands[c].tileSize, lastFrame.size)

\* C3 witness: a frame that drew one tile at the smallest size, one at the
\* full size and one strictly in between
C3_Witness ==
    /\ EdgeValid
    /\ \E c \in DOMAIN commands : commands[c].tileSize = Mul(R(1, 5), lastFrame.size)
    /\ \E c \in DOMAIN commands : commands[c].tileSize = lastFrame.size
    /\ \E c \in DOMAIN commands :
          /\ Less(Mul(R(1, 5), lastFrame.size), commands[c].tileSize)
          /\ Less(commands[c].tileSize, lastFrame.size)

\* C4: the geometry computation never completes with density <= 0: once the
\* geometry exists, density is positive, rows and cols are positive and
\* finite, and size is positive and finite.
C4_DensityRejected ==
    Running =>
        /\ Less(Num(0), density)
        /\ IsFinite(rows) /\ rows.n > 0
        /\ IsFinite(cols) /\ cols.n > 0
        /\ IsFinite(size) /\ size.n > 0

\* C5: no frame is drawn with edge outside (0, 0.5), that is with
\* smoothStep evaluated with edge2 - edge1 <= 0 or edge >= 0.5.
C5_EdgeRejected == frames > 0 => EdgeValid

\* C6: without a 2D context no frame callback is ever scheduled, no draw
\* command is emitted and time stays 0.
C6_NoLoopWithoutSurface ==
    (ConfigValid /\ ~contextAvailable) =>
        /\ rafPending = 0
        /\ commands = << >>
        /\ time = Num(0)

\* C7: time is 0 at the start and is frames * speed ever after; a step either
\* leaves time alone or is a rendered frame that adds exactly speed, and a
\* resize or a theme change never changes it.
C7_ClockMonotonic ==
    /\ [](time = Mul(Num(frames), speed))
    /\ [][/\ \/ time' = time /\ frames' = frames
             \/ /\ frames' = frames + 1
                /\ time' = Add(time, speed)
                /\ Less(time, time')
          /\ (ViewportChanges \/ themeMatches' # themeMatches) => time' = time]_vars

\* C7 witness: three frames rendered, the latest on a resized grid, and a
\* theme change since
C7_Witness ==
    /\ frames = 3
    /\ LoopCount(lastFrame.cols) # initColors.cols
    /\ isDark # lastFrame.isDark
    /\ time = Mul(Num(3), speed)

\* C8: with density > 0, rows and cols are the ceilings of the logical
\* viewport height and width over size: the grid covers the viewport and has
\* no row or column to spare, and for an integer density the shorter
\* dimension holds exactly density cells.
C8_GridCoversViewport ==
    (Running /\ ConfigValid) =>
        /\ Leq(Num(innerWidth), Mul(cols, size))
        /\ Leq(Num(innerHeight), Mul(rows, size))
        /\ Less(Mul(Sub(cols, Num(1)), size), Num(innerWidth))
        /\ Less(Mul(Sub(rows, Num(1)), size), Num(innerHeight))
        /\ density.d = 1 =>
              (IF innerWidth <= innerHeight THEN cols ELSE rows) = density

\* C9: every rendered frame emits exactly one draw command per cell of
\* [0, cols) x [0, rows), coloured with the cell's ColorTable entry, or with
\* the blank colour of isDark at that frame when the entry is empty.
C9_OneCommandPerCell ==
    (ConfigValid /\ frames > 0) =>
        /\ DOMAIN commands = FrameCells
        /\ \A c \in DOMAIN commands :
              commands[c].fillStyle =
                  IF c \in DOMAIN colors.at /\ colors.at[c] \notin {"", undefined}
                  THEN colors.at[c]
                  ELSE blankColor(lastFrame.isDark)

\* C10: at most one frame callback is pending, exactly one once the loop has
\* started; a frame leaves exactly one successor pending; a resize or a theme
\* change schedules nothing, renders nothing and draws nothing; and with a
\* context, under a fair browser, the next frame always eventually runs.
C10_OneLoop ==
    /\ [](rafPending <= 1 /\ (Running => rafPending = 1))
    /\ [][/\ frames' # frames => rafPending' = 1
          /\ (ViewportChanges \/ themeMatches' # themeMatches) =>
                /\ rafPending' = rafPending
                /\ frames' = frames
                /\ commands' = commands]_vars
    /\ \A n \in 1..(MaxFrames - 1) : (Running /\ ctx /\ frames = n) ~> (frames = n + 1)

\* C10 witness: the loop is still pending after a frame whose draw threw
C10_Witness ==
    /\ Running
    /\ rafPending = 1
    /\ frames > 1
    /\ lastFrame.threw

====
